---------------------------- MODULE Spec2Model ----------------------------
(***************************************************************************)
(* A model of the recipe ratio calculator (src/calculator): the            *)
(* AvailableResources ledger, the RecipeBook lookups and the worklist      *)
(* fixed point of RecipeBook.calculate / RecipeBook._propagate.            *)
(*                                                                         *)
(* Numeric domain.  The code computes either with Python floats or with    *)
(* fractions.Fraction (use_fractions=True).  A quantity is a pair <<n, d>> *)
(* with d > 0 and gcd(n, d) = 1.  Spec and LedgerSpec are the Fraction     *)
(* domain, where every operation is exact.  FloatLedgerSpec is the ledger  *)
(* in the float domain: every operation rounds to the nearest float, at a  *)
(* significand of MantissaBits bits instead of a double's 53.              *)
(***************************************************************************)
EXTENDS Integers, Sequences, FiniteSets, TLC

VARIABLES
    book,            \* RecipeBook._recipes: the recipes, in insertion order
    defaults,        \* RecipeBook._defaults: resource -> recipe name or NoRecipe
    targets,         \* calculate's targets, a sequence of <<identifier, quantity>>
    roundBatches,    \* calculate's round_batches
    roundResources,  \* calculate's round_resources
    maxIterations,   \* calculate's max_iterations
    available,       \* AvailableResources.available
    used,            \* AvailableResources.used
    recipes,         \* Calculations.recipes: name -> <<requested, required>>
    resources,       \* Calculations.resources: name -> <<demand, produced>>
    pending,         \* _propagate's pending_changes
    changesMade,     \* _propagate's changes_made
    changed,         \* calculate's changed
    iter,            \* propagation steps calculate has completed
    pc,              \* where the caller is
    extraPasses,     \* propagation steps run again on the returned state
    call             \* the last AvailableResources.use call and what it returned

vars == <<book, defaults, targets, roundBatches, roundResources, maxIterations,
          available, used, recipes, resources, pending, changesMade, changed,
          iter, pc, extraPasses, call>>

-----------------------------------------------------------------------------
(* fractions.Fraction: exact rationals, always in lowest terms.            *)

Abs(n) == IF n < 0 THEN -n ELSE n

RECURSIVE GCD(_, _)
GCD(a, b) == IF b = 0 THEN a ELSE GCD(b, a % b)

\* Fraction(n, d) for d > 0.
Fraction(n, d) == LET g == GCD(Abs(n), d) IN <<n \div g, d \div g>>

Zero == <<0, 1>>

FAdd(a, b) == Fraction(a[1] * b[2] + b[1] * a[2], a[2] * b[2])

FNeg(a) == <<-a[1], a[2]>>

FSub(a, b) == FAdd(a, FNeg(b))

FMul(a, b) == Fraction(a[1] * b[1], a[2] * b[2])

\* a / b for b # 0.
FDiv(a, b) ==
    IF b[1] > 0 THEN Fraction(a[1] * b[2], a[2] * b[1])
    ELSE Fraction(-(a[1] * b[2]), -(a[2] * b[1]))

FLeq(a, b) == a[1] * b[2] <= b[1] * a[2]

FLt(a, b) == a[1] * b[2] < b[1] * a[2]

FMax(a, b) == IF FLt(a, b) THEN b ELSE a

\* math.ceil and math.floor of a Fraction: an integer.
Ceil(a) == <<-((-a[1]) \div a[2]), 1>>

FloorRoundedUp(a) == Ceil(a)

Floor(a) == <<a[1] \div a[2], 1>>

-----------------------------------------------------------------------------
(* Python dictionaries: functions on the set of their keys.                *)

\* d.get(k) or dflt
Get(d, k, dflt) == IF k \in DOMAIN d THEN d[k] ELSE dflt

\* d[k] = v
Put(d, k, v) == [x \in DOMAIN d \cup {k} |-> IF x = k THEN v ELSE d[x]]

EmptyDict == [x \in {} |-> Zero]

-----------------------------------------------------------------------------
(* AvailableResources                                                      *)

RemainingUnused(av, us, resource) == Get(av, resource, Zero)

Remaining(av, us, resource) ==
    FSub(Get(av, resource, Zero), Get(us, resource, Zero))

ExcessUnclamped(qty, remaining) == FSub(qty, remaining)

ExcessWhole(qty, remaining) == qty

\* line 39: the part of qty > 0 that the ledger cannot cover
Excess(qty, remaining) == FMax(Zero, FSub(qty, remaining))

UnuseUnclamped(initially_used, qty) == FAdd(initially_used, qty)

\* line 48: what used[resource] becomes when qty < 0
Unuse(initially_used, qty) == FMax(Zero, FAdd(initially_used, qty))

UseNothing(av, us, resource, qty) == [ret |-> qty, used |-> us, ok |-> TRUE]

\* use(resource, qty): the returned value, the new used map, and whether the
\* assertion of line 42 held (TRUE where it is not executed).
Use(av, us, resource, qty) ==
    IF FLt(Zero, qty) THEN
        IF resource \notin DOMAIN av THEN [ret |-> qty, used |-> us, ok |-> TRUE]
        ELSE LET excess == Excess(qty, Remaining(av, us, resource))
                 drawn  == FSub(qty, excess)
                 now    == FAdd(Get(us, resource, Zero), drawn)
             IN  [ret  |-> excess,
                  used |-> Put(us, resource, now),
                  ok   |-> FLeq(Zero, now) /\ FLeq(now, av[resource])]
    ELSE IF FLt(qty, Zero) THEN
        IF resource \notin DOMAIN us THEN [ret |-> qty, used |-> us, ok |-> TRUE]
        ELSE LET initially_used == Get(us, resource, Zero)
             IN  [ret  |-> FSub(initially_used, FMax(initially_used, FNeg(qty))),
                  used |-> Put(us, resource, Unuse(initially_used, qty)),
                  ok   |-> TRUE]
    ELSE [ret |-> Zero, used |-> us, ok |-> TRUE]

-----------------------------------------------------------------------------
(* Recipe (calculator/recipe.py).  A recipe is a record                     *)
(*   [inputs, outputs : sequences of <<resource, per-batch count>> in       *)
(*    dictionary order, duration : a positive integer,                      *)
(*    crafters : a sequence of crafter names].                              *)

NoRecipe == "None"

\* Crafter.efficiency of the crafters the books define.
CrafterEfficiency == [fast |-> <<2, 1>>, slow |-> <<1, 2>>]

\* calculator/__init__.py
MAX_DENOMINATOR == 1000

\* Fraction.limit_denominator's continued-fraction loop: the convergents
\* p0/q0, p1/q1 of n/d, stopped before a denominator exceeds max.
RECURSIVE Convergents(_, _, _, _, _, _, _)
Convergents(p0, q0, p1, q1, n, d, max) ==
    LET a  == n \div d
        q2 == q0 + a * q1
    IN  IF q2 > max THEN <<p0, q0, p1, q1>>
        ELSE Convergents(p1, q1, p0 + a * p1, q2, d, n - a * d, max)

\* asfrac(x) = Fraction(x).limit_denominator(MAX_DENOMINATOR)
asfrac(x) ==
    IF x[2] <= MAX_DENOMINATOR THEN x
    ELSE LET c      == Convergents(0, 1, 1, 0, x[1], x[2], MAX_DENOMINATOR)
             k      == (MAX_DENOMINATOR - c[2]) \div c[4]
             bound1 == Fraction(c[1] + k * c[3], c[2] + k * c[4])
             bound2 == Fraction(c[3], c[4])
             d1     == FSub(bound1, x)
             d2     == FSub(bound2, x)
             abs1   == IF d1[1] < 0 THEN FNeg(d1) ELSE d1
             abs2   == IF d2[1] < 0 THEN FNeg(d2) ELSE d2
         IN  IF FLeq(abs2, abs1) THEN bound2 ELSE bound1

Names(pairs) == {pairs[i][1] : i \in 1..Len(pairs)}

\* dict.get(resource) or 0.0
CountOf(pairs, resource) ==
    IF resource \in Names(pairs)
    THEN <<pairs[CHOOSE i \in 1..Len(pairs) : pairs[i][1] = resource][2], 1>>
    ELSE Zero

efficiency(r) ==
    IF Len(r.crafters) = 0 THEN <<1, 1>> ELSE CrafterEfficiency[r.crafters[1]]

produces(r, resource) == resource \in Names(r.outputs)

\* e / d
Rate(r) == FDiv(asfrac(efficiency(r)), asfrac(<<r.duration, 1>>))

produced(r, resource, batches) ==
    FMul(FMul(asfrac(CountOf(r.outputs, resource)), Rate(r)), batches)

ConsumedNothing(r, resource, batches) == Zero

consumed(r, resource, batches) ==
    FMul(FMul(asfrac(CountOf(r.inputs, resource)), Rate(r)), batches)

batches_required(r, resource, quantity) ==
    IF resource \in Names(r.inputs)
    THEN FDiv(quantity, FMul(asfrac(CountOf(r.inputs, resource)), Rate(r)))
    ELSE IF resource \in Names(r.outputs)
    THEN FDiv(quantity, FMul(asfrac(CountOf(r.outputs, resource)), Rate(r)))
    ELSE Zero

-----------------------------------------------------------------------------
(* RecipeBook lookups.  A book is [order : the recipe names in insertion    *)
(* order, recipe : name -> Recipe].                                         *)

RecipeNames(b) == {b.order[i] : i \in 1..Len(b.order)}

\* RecipeBook._resources: every input and output of every recipe
ResourcesOf(b) ==
    UNION {Names(b.recipe[n].inputs) \cup Names(b.recipe[n].outputs) : n \in RecipeNames(b)}

is_recipe(b, identifier) == identifier \in RecipeNames(b)

IsAnyIdentifier(b, identifier) == TRUE

IsNoIdentifier(b, identifier) == FALSE

is_resource(b, identifier) == identifier \in ResourcesOf(b)

\* get_recipe_for: the default if one is set (it may be NoRecipe), else the
\* first recipe in insertion order that produces the resource, else NoRecipe.
get_recipe_for(b, dflt, resource) ==
    IF resource \in DOMAIN dflt THEN dflt[resource]
    ELSE LET avail == SelectSeq(b.order, LAMBDA n : produces(b.recipe[n], resource))
         IN  IF Len(avail) = 0 THEN NoRecipe ELSE avail[1]

-----------------------------------------------------------------------------
(* RecipeBook._propagate: one iteration of its while loop, on the engine    *)
(* state e = [recipes, resources, used, pending, changesMade, ok].  ok      *)
(* turns FALSE when an assertion (book.py line 42 or 468) fails.            *)

\* _zero(use_fractions)'s zt()
ZeroPair == <<Zero, Zero>>

\* line 446: the batches still owed to the requested minimum
BaseBatches(base) == FMax(Zero, FSub(base[1], base[2]))

RECURSIVE OutputBatchesAdded(_, _, _, _, _, _, _)
OutputBatchesAdded(b, dflt, name, outs, i, rsc, batches) ==
    IF i > Len(outs) THEN batches
    ELSE LET resource == outs[i][1]
             counts   == Get(rsc, resource, <<Zero, Zero>>)
             skip     == \/ FLeq(counts[1], counts[2])
                         \/ get_recipe_for(b, dflt, resource) # name
         IN  OutputBatchesAdded(b, dflt, name, outs, i + 1, rsc,
                 IF skip THEN batches
                 ELSE FAdd(batches,
                           batches_required(b.recipe[name], resource,
                                            FSub(counts[1], counts[2]))))

\* lines 448-462: the loop over the recipe's outputs, from the i-th on
RECURSIVE OutputBatches(_, _, _, _, _, _, _)
OutputBatches(b, dflt, name, outs, i, rsc, batches) ==
    IF i > Len(outs) THEN batches
    ELSE LET resource == outs[i][1]
             counts   == Get(rsc, resource, ZeroPair)
             demand   == counts[1]
             prod     == counts[2]
             skip     == /\ ~FLt(batches, Zero)
                         /\ \/ FLeq(demand, prod)
                            \/ get_recipe_for(b, dflt, resource) # name
         IN  OutputBatches(b, dflt, name, outs, i + 1, rsc,
                 IF skip THEN batches
                 ELSE FMax(batches,
                           batches_required(b.recipe[name], resource, FSub(demand, prod))))

\* lines 443-465: the batches to add to recipe `name`
Batches(b, dflt, rb, e, name) ==
    LET base == Get(e.recipes, name, ZeroPair)
        raw  == OutputBatches(b, dflt, name, b.recipe[name].outputs, 1,
                              e.resources, BaseBatches(base))
    IN  IF rb THEN Ceil(raw) ELSE raw

UpdateInputsSkipped(b, dflt, av, rr, name, i, batches, e) == e

\* lines 478-497: the loop over the recipe's inputs, from the i-th on
RECURSIVE UpdateInputs(_, _, _, _, _, _, _, _)
UpdateInputs(b, dflt, av, rr, name, i, batches, e) ==
    LET ins == b.recipe[name].inputs IN
    IF i > Len(ins) THEN e
    ELSE LET resource == ins[i][1]
             counts   == Get(e.resources, resource, ZeroPair)
             c0       == consumed(b.recipe[name], resource, batches)
             c1       == IF rr THEN Ceil(c0) ELSE c0
             u        == Use(av, e.used, resource, c1)
             demand   == FAdd(counts[1], u.ret)
             r2       == get_recipe_for(b, dflt, resource)
             counts2  == IF r2 = NoRecipe THEN <<demand, demand>>
                         ELSE <<demand, counts[2]>>
         IN  UpdateInputs(b, dflt, av, rr, name, i + 1, batches,
                 [e EXCEPT !.used      = u.used,
                           !.ok        = e.ok /\ u.ok,
                           !.pending   = IF r2 = NoRecipe THEN @ ELSE @ \cup {r2},
                           !.resources = Put(@, resource, counts2)])

\* lines 500-506: the loop over the recipe's outputs, from the i-th on
RECURSIVE UpdateOutputs(_, _, _, _, _, _)
UpdateOutputs(b, rr, name, i, batches, e) ==
    LET outs == b.recipe[name].outputs IN
    IF i > Len(outs) THEN e
    ELSE LET resource == outs[i][1]
             counts   == Get(e.resources, resource, ZeroPair)
             p0       == FAdd(counts[2], produced(b.recipe[name], resource, batches))
             p1       == IF rr THEN Floor(p0) ELSE p0
         IN  UpdateOutputs(b, rr, name, i + 1, batches,
                 [e EXCEPT !.resources = Put(@, resource, <<counts[1], p1>>)])

MarkUnchanged(e) == e

\* line 472: changes_made = True
MarkChanged(e) == [e EXCEPT !.changesMade = TRUE]

\* lines 467-506: add `batches` to recipe `name`, already popped
AddBatches(b, dflt, av, rr, e, name, batches) ==
    LET base == Get(e.recipes, name, ZeroPair)
    IN  IF ~FLeq(base[1], FAdd(base[2], batches)) THEN [e EXCEPT !.ok = FALSE]
        ELSE IF batches = Zero THEN e
        ELSE UpdateOutputs(b, rr, name, 1, batches,
                 UpdateInputs(b, dflt, av, rr, name, 1, batches,
                     [MarkChanged(e) EXCEPT
                          !.recipes = Put(@, name, <<base[1], FAdd(base[2], batches)>>)]))

\* lines 440-506: pop `name` and process it
PopStep(b, dflt, av, rb, rr, e, name) ==
    AddBatches(b, dflt, av, rr, [e EXCEPT !.pending = @ \ {name}], name,
               Batches(b, dflt, rb, e, name))

-----------------------------------------------------------------------------
(* RecipeBook.calculate, lines 299-321: the loop over targets.items(), from  *)
(* the i-th target on, on c = [recipes, resources, used, ok, error].         *)

RECURSIVE InitTargets(_, _, _, _, _, _)
InitTargets(b, dflt, av, tg, i, c) ==
    IF i > Len(tg) \/ c.error \/ ~c.ok THEN c
    ELSE LET target   == tg[i][1]
             required == asfrac(tg[i][2])
         IN  IF is_resource(b, target) THEN
                 LET u      == Use(av, c.used, target, required)
                     recipe == get_recipe_for(b, dflt, target)
                 IN  InitTargets(b, dflt, av, tg, i + 1,
                         IF recipe = NoRecipe
                         THEN [c EXCEPT !.used = u.used, !.ok = c.ok /\ u.ok,
                                        !.resources = Put(@, target, <<u.ret, u.ret>>)]
                         ELSE [c EXCEPT !.used = u.used, !.ok = c.ok /\ u.ok,
                                        !.resources = Put(@, target, <<u.ret, Zero>>),
                                        !.recipes = Put(@, recipe, ZeroPair)])
             ELSE IF is_recipe(b, target) THEN
                 InitTargets(b, dflt, av, tg, i + 1,
                     [c EXCEPT !.recipes = Put(@, target, <<required, Zero>>)])
             ELSE [c EXCEPT !.error = TRUE]

-----------------------------------------------------------------------------
(* The books, targets, on-hand stocks and options the model runs on.        *)

Rcp(ins, outs, dur) == [inputs |-> ins, outputs |-> outs, duration |-> dur, crafters |-> <<>>]

NoDefaults == [x \in {} |-> NoRecipe]

\* R {2 wood} -> {1 plank}
ChainBook ==
    [order |-> <<"R">>,
     recipe |-> [R |-> Rcp(<<<<"wood", 2>>>>, <<<<"plank", 1>>>>, 1)],
     defaults |-> NoDefaults]

\* R {2 wood} -> {1 plank}, T {1 plank} -> {4 stick} / 2
TwoLevelBook ==
    [order |-> <<"R", "T">>,
     recipe |-> [R |-> Rcp(<<<<"wood", 2>>>>, <<<<"plank", 1>>>>, 1),
                 T |-> Rcp(<<<<"plank", 1>>>>, <<<<"stick", 4>>>>, 2)],
     defaults |-> NoDefaults]

\* A {1 x} -> {1 y, 1 z}, B {1 z} -> {1 x}
ByproductCycleBook ==
    [order |-> <<"A", "B">>,
     recipe |-> [A |-> Rcp(<<<<"x", 1>>>>, <<<<"y", 1>>, <<"z", 1>>>>, 1),
                 B |-> Rcp(<<<<"z", 1>>>>, <<<<"x", 1>>>>, 1)],
     defaults |-> NoDefaults]

\* S {1 ore} -> {1 z}, A {1 ore} -> {1 y, 1 z}: z has two producers, S the first
TwoProducersBook ==
    [order |-> <<"S", "A">>,
     recipe |-> [S |-> Rcp(<<<<"ore", 1>>>>, <<<<"z", 1>>>>, 1),
                 A |-> Rcp(<<<<"ore", 1>>>>, <<<<"y", 1>>, <<"z", 1>>>>, 1)],
     defaults |-> NoDefaults]

\* A {1 x} -> {1 y}, B {1 y} -> {1 x}
UnitCycleBook ==
    [order |-> <<"A", "B">>,
     recipe |-> [A |-> Rcp(<<<<"x", 1>>>>, <<<<"y", 1>>>>, 1),
                 B |-> Rcp(<<<<"y", 1>>>>, <<<<"x", 1>>>>, 1)],
     defaults |-> NoDefaults]

\* A {1 x} -> {2 z}, B {1 z} -> {1 w}, with set_default_recipe("z", None)
RawOverrideBook ==
    [order |-> <<"A", "B">>,
     recipe |-> [A |-> Rcp(<<<<"x", 1>>>>, <<<<"z", 2>>>>, 1),
                 B |-> Rcp(<<<<"z", 1>>>>, <<<<"w", 1>>>>, 1)],
     defaults |-> [z |-> NoRecipe]]

\* R {2 wood} -> {1 plank}, S {1 wood} -> {1 stick},
\* with set_default_recipe("plank", "S")
ForeignDefaultBook ==
    [order |-> <<"R", "S">>,
     recipe |-> [R |-> Rcp(<<<<"wood", 2>>>>, <<<<"plank", 1>>>>, 1),
                 S |-> Rcp(<<<<"wood", 1>>>>, <<<<"stick", 1>>>>, 1)],
     defaults |-> [plank |-> "S"]]

\* plank {2 wood} -> {1 plank}, wood {1 plank} -> {1 stick}: both recipe
\* names are resource names too
CollisionBook ==
    [order |-> <<"plank", "wood">>,
     recipe |-> [plank |-> Rcp(<<<<"wood", 2>>>>, <<<<"plank", 1>>>>, 1),
                 wood  |-> Rcp(<<<<"plank", 1>>>>, <<<<"stick", 1>>>>, 1)],
     defaults |-> NoDefaults]

Books == {ChainBook, TwoLevelBook, ByproductCycleBook, TwoProducersBook,
          UnitCycleBook, RawOverrideBook, ForeignDefaultBook, CollisionBook}

MaxAvailable == 2
MaxIterations == 1
MaxQuantity == 4
MaxExtraPasses == 1
MaxUseHalves == 3

\* calculate's default max_iterations
DefaultMaxIterations == 10

\* the quantities a target asks for
TargetQtys == {<<1, 2>>, <<1, 1>>}

\* an identifier no book defines
UnknownId == "bogus"

TargetIds(b) == RecipeNames(b) \cup ResourcesOf(b) \cup {UnknownId}

\* dictionaries of one or two targets, as their items() in order
TargetSeqs(b) ==
    LET one == TargetIds(b) \X TargetQtys
    IN  {<<t>> : t \in one}
            \cup {<<p[1], p[2]>> : p \in {q \in one \X one : q[1][1] # q[2][1]}}

\* nothing on hand, or some of one resource
\* the quantities on hand: a half, and the whole numbers up to MaxAvailable
AvailableQtys == {<<1, 2>>} \cup {<<n, 1>> : n \in 1..MaxAvailable}

AvailableChoices(b) ==
    {EmptyDict} \cup {[x \in {r} |-> q] : r \in ResourcesOf(b), q \in AvailableQtys}

NoCall == [resource |-> "", qty |-> Zero, ret |-> Zero, before |-> EmptyDict, ok |-> TRUE]

-----------------------------------------------------------------------------
(* calculate as a state machine: the initialization, then propagation steps  *)
(* of one worklist pop each.                                                 *)

Engine == [recipes |-> recipes, resources |-> resources, used |-> used,
           pending |-> pending, changesMade |-> changesMade, ok |-> TRUE]

Quantities(e) ==
    {e.recipes[n][2] : n \in DOMAIN e.recipes}
        \cup {e.resources[r][1] : r \in DOMAIN e.resources}
        \cup {e.resources[r][2] : r \in DOMAIN e.resources}

\* the model follows a run while its quantities are at most MaxQuantity
Bounded(e) == \A q \in Quantities(e) : FLeq(q, <<MaxQuantity, 1>>)

Init ==
    /\ \E b \in Books :
          /\ book = [order |-> b.order, recipe |-> b.recipe]
          /\ defaults = b.defaults
          /\ targets \in TargetSeqs(b)
          /\ available \in AvailableChoices(b)
    /\ roundBatches \in BOOLEAN
    /\ roundResources \in BOOLEAN
    /\ maxIterations \in (0..MaxIterations) \cup {DefaultMaxIterations}
    /\ used = EmptyDict
    /\ recipes = [x \in {} |-> ZeroPair]
    /\ resources = [x \in {} |-> ZeroPair]
    /\ pending = {}
    /\ changesMade = FALSE
    /\ changed = FALSE
    /\ iter = 0
    /\ pc = "start"
    /\ extraPasses = 0
    /\ call = NoCall

Inputs == <<book, defaults, targets, roundBatches, roundResources, maxIterations, available>>

\* lines 299-323
Initialize ==
    /\ pc = "start"
    /\ LET c == InitTargets(book, defaults, available, targets, 1,
                    [recipes |-> recipes, resources |-> resources, used |-> used,
                     ok |-> TRUE, error |-> FALSE])
       IN  IF c.error \/ ~c.ok
           THEN /\ pc' = IF c.error THEN "unrecognized" ELSE "assertion"
                /\ UNCHANGED <<recipes, resources, used>>
           ELSE /\ pc' = "loop"
                /\ recipes' = c.recipes
                /\ resources' = c.resources
                /\ used' = c.used
    /\ UNCHANGED <<Inputs, pending, changesMade, changed, iter, extraPasses, call>>

\* lines 324-326 and 434-436: the for loop enters _propagate
BeginPass ==
    /\ pc = "loop"
    /\ iter < maxIterations
    /\ pending' = DOMAIN recipes
    /\ changesMade' = FALSE
    /\ pc' = "propagate"
    /\ UNCHANGED <<Inputs, recipes, resources, used, changed, iter, extraPasses, call>>

\* lines 438-506: one iteration of the while loop, on any recipe of the set
Pop ==
    /\ pc \in {"propagate", "again"}
    /\ \E name \in pending :
          \E e \in {PopStep(book, defaults, available, roundBatches, roundResources,
                            Engine, name)} :
              /\ Bounded(e)
              /\ recipes' = e.recipes
              /\ resources' = e.resources
              /\ used' = e.used
              /\ pending' = e.pending
              /\ changesMade' = e.changesMade
              /\ pc' = IF e.ok THEN pc ELSE "assertion"
    /\ UNCHANGED <<Inputs, changed, iter, extraPasses, call>>

EndPassNeverBreaks ==
    /\ pc = "propagate"
    /\ pending = {}
    /\ changed' = changesMade
    /\ iter' = iter + 1
    /\ pc' = "loop"
    /\ UNCHANGED <<Inputs, recipes, resources, used, pending, changesMade, extraPasses, call>>

\* lines 508 and 326-328: _propagate returns; calculate breaks on no change
EndPass ==
    /\ pc = "propagate"
    /\ pending = {}
    /\ changed' = changesMade
    /\ iter' = iter + 1
    /\ pc' = IF changesMade THEN "loop" ELSE "returned"
    /\ UNCHANGED <<Inputs, recipes, resources, used, pending, changesMade, extraPasses, call>>

\* lines 324 and 329-332: the for loop is exhausted; calculate returns (and
\* warns when changed)
Exhausted ==
    /\ pc = "loop"
    /\ iter = maxIterations
    /\ pc' = "returned"
    /\ UNCHANGED <<Inputs, recipes, resources, used, pending, changesMade, changed, iter,
                   extraPasses, call>>

\* _propagate called once more on the result calculate returned
PropagateAgain ==
    /\ pc = "returned"
    /\ extraPasses < MaxExtraPasses
    /\ pending' = DOMAIN recipes
    /\ changesMade' = FALSE
    /\ pc' = "again"
    /\ UNCHANGED <<Inputs, recipes, resources, used, changed, iter, extraPasses, call>>

\* line 508: that call returns changes_made
EndAgain ==
    /\ pc = "again"
    /\ pending = {}
    /\ extraPasses' = extraPasses + 1
    /\ pc' = "returned"
    /\ UNCHANGED <<Inputs, recipes, resources, used, pending, changesMade, changed, iter, call>>

Next == Initialize \/ BeginPass \/ Pop \/ EndPass \/ Exhausted \/ PropagateAgain \/ EndAgain

Spec == Init /\ [][Next]_vars

-----------------------------------------------------------------------------
(* Python floats: binary floating point, round to nearest, ties to even.    *)

MantissaBits == 3
MaxFloatSixteenths == 12

RECURSIVE Pow2(_)
Pow2(k) == IF k = 0 THEN 1 ELSE 2 * Pow2(k - 1)

\* x > 0 scaled by a power of two into [2^(MantissaBits-1), 2^MantissaBits),
\* with the exponent that was taken out
RECURSIVE Normalized(_, _)
Normalized(x, e) ==
    IF FLeq(<<Pow2(MantissaBits), 1>>, x) THEN Normalized(FMul(x, <<1, 2>>), e + 1)
    ELSE IF FLt(x, <<Pow2(MantissaBits - 1), 1>>) THEN Normalized(FMul(x, <<2, 1>>), e - 1)
    ELSE <<x, e>>

\* the float nearest to the real number x
FloatRound(x) ==
    IF x[1] = 0 THEN Zero
    ELSE LET mag  == IF x[1] < 0 THEN FNeg(x) ELSE x
             ne   == Normalized(mag, 0)
             m    == ne[1][1] \div ne[1][2]
             rest == FSub(ne[1], <<m, 1>>)
             up   == FLt(<<1, 2>>, rest) \/ (rest = <<1, 2>> /\ m % 2 = 1)
             sig  == IF up THEN m + 1 ELSE m
             val  == IF ne[2] >= 0 THEN FMul(<<sig, 1>>, <<Pow2(ne[2]), 1>>)
                     ELSE FMul(<<sig, 1>>, <<1, Pow2(-ne[2])>>)
         IN  IF x[1] < 0 THEN FNeg(val) ELSE val

\* float + and -
FlAdd(a, b) == FloatRound(FAdd(a, b))

FlSub(a, b) == FloatRound(FSub(a, b))

\* AvailableResources.use on floats: Use with every operation rounded
UseFloat(av, us, resource, qty) ==
    IF FLt(Zero, qty) THEN
        IF resource \notin DOMAIN av THEN [ret |-> qty, used |-> us, ok |-> TRUE]
        ELSE LET remaining == FlSub(Get(av, resource, Zero), Get(us, resource, Zero))
                 excess    == FMax(Zero, FlSub(qty, remaining))
                 drawn     == FlSub(qty, excess)
                 now       == FlAdd(Get(us, resource, Zero), drawn)
             IN  [ret  |-> excess,
                  used |-> Put(us, resource, now),
                  ok   |-> FLeq(Zero, now) /\ FLeq(now, av[resource])]
    ELSE IF FLt(qty, Zero) THEN
        IF resource \notin DOMAIN us THEN [ret |-> qty, used |-> us, ok |-> TRUE]
        ELSE LET initially_used == Get(us, resource, Zero)
             IN  [ret  |-> FlSub(initially_used, FMax(initially_used, FNeg(qty))),
                  used |-> Put(us, resource, FMax(Zero, FlAdd(initially_used, qty))),
                  ok   |-> TRUE]
    ELSE [ret |-> Zero, used |-> us, ok |-> TRUE]

-----------------------------------------------------------------------------
(* The ledger on its own: any sequence of use calls on any ledger.          *)

LedgerResources == {"wood", "plank"}

\* quantities n/2 for n in lo..hi
Halves(lo, hi) == {Fraction(n, 2) : n \in lo..hi}

LedgerInit ==
    /\ book = [order |-> ChainBook.order, recipe |-> ChainBook.recipe]
    /\ defaults = NoDefaults
    /\ targets = <<>>
    /\ roundBatches = FALSE
    /\ roundResources = FALSE
    /\ maxIterations = 0
    /\ \E tracked \in SUBSET LedgerResources :
          available \in [tracked -> Halves(0, MaxUseHalves)]
    /\ used = EmptyDict
    /\ recipes = [x \in {} |-> ZeroPair]
    /\ resources = [x \in {} |-> ZeroPair]
    /\ pending = {}
    /\ changesMade = FALSE
    /\ changed = FALSE
    /\ iter = 0
    /\ pc = "ledger"
    /\ extraPasses = 0
    /\ call = NoCall

\* AvailableResources.use(resource, qty), for any resource and any signed qty
LedgerUse ==
    /\ pc = "ledger"
    /\ call.ok
    /\ \E resource \in LedgerResources, qty \in Halves(-MaxUseHalves, MaxUseHalves) :
          \E u \in {Use(available, used, resource, qty)} :
              /\ used' = u.used
              /\ call' = [resource |-> resource, qty |-> qty, ret |-> u.ret,
                          before |-> used, ok |-> u.ok]
    /\ UNCHANGED <<Inputs, recipes, resources, pending, changesMade, changed, iter, pc,
                   extraPasses>>

LedgerNext == LedgerUse

LedgerSpec == LedgerInit /\ [][LedgerNext]_vars

\* the floats m/16 up to MaxFloatSixteenths/16
FloatQtys == {x \in {Fraction(m, 16) : m \in 0..MaxFloatSixteenths} : FloatRound(x) = x}

FloatLedgerInit ==
    /\ book = [order |-> ChainBook.order, recipe |-> ChainBook.recipe]
    /\ defaults = NoDefaults
    /\ targets = <<>>
    /\ roundBatches = FALSE
    /\ roundResources = FALSE
    /\ maxIterations = 0
    /\ \E tracked \in SUBSET {"plank"} : available \in [tracked -> FloatQtys]
    /\ used = EmptyDict
    /\ recipes = [x \in {} |-> ZeroPair]
    /\ resources = [x \in {} |-> ZeroPair]
    /\ pending = {}
    /\ changesMade = FALSE
    /\ changed = FALSE
    /\ iter = 0
    /\ pc = "floatledger"
    /\ extraPasses = 0
    /\ call = NoCall

\* AvailableResources.use(resource, qty) on floats; a failed assertion raises
\* and ends the run
FloatLedgerUse ==
    /\ pc = "floatledger"
    /\ call.ok
    /\ \E resource \in LedgerResources, q \in FloatQtys, negative \in BOOLEAN :
          \E u \in {UseFloat(available, used, resource, IF negative THEN FNeg(q) ELSE q)} :
              /\ used' = u.used
              /\ call' = [resource |-> resource, qty |-> IF negative THEN FNeg(q) ELSE q,
                          ret |-> u.ret, before |-> used, ok |-> u.ok]
    /\ UNCHANGED <<Inputs, recipes, resources, pending, changesMade, changed, iter, pc,
                   extraPasses>>

FloatLedgerNext == FloatLedgerUse

FloatLedgerSpec == FloatLedgerInit /\ [][FloatLedgerNext]_vars

\* C1 (every ledger, floats included): after every use call the assertion of
\* use has held and 0 <= used[r] <= available[r] for every tracked resource r.
C1_AssertionNeverFails ==
    /\ call.ok
    /\ \A r \in DOMAIN available :
          LET u == IF r \in DOMAIN used THEN used[r] ELSE Zero
          IN  /\ u[1] >= 0
              /\ u[1] * available[r][2] <= available[r][1] * u[2]

\* The invariant of C1 in the Fraction domain: after every use call the
\* assertion of use has held, only tracked resources have a used amount, and
\* 0 <= used[r] <= available[r] for every tracked resource r.
UsedWithinAvailable ==
    /\ call.ok
    /\ DOMAIN used \subseteq DOMAIN available
    /\ \A r \in DOMAIN available :
          LET u == IF r \in DOMAIN used THEN used[r] ELSE Zero
          IN  /\ u[1] >= 0
              /\ u[1] * available[r][2] <= available[r][1] * u[2]

\* a draw larger than what is left has emptied a stocked resource
UsedWithinAvailableWitness ==
    /\ call.resource \in DOMAIN available
    /\ call.resource \in DOMAIN call.before
    /\ FLt(Zero, call.before[call.resource])
    /\ FLt(FSub(available[call.resource], call.before[call.resource]), call.qty)
    /\ used[call.resource] = available[call.resource]

\* what the ledger held for the call's resource before and after the call
UsedBefore == IF call.resource \in DOMAIN call.before THEN call.before[call.resource] ELSE Zero

UsedAfter == IF call.resource \in DOMAIN used THEN used[call.resource] ELSE Zero

OthersUntouched ==
    \A r \in (DOMAIN used \cup DOMAIN call.before) \ {call.resource} :
        r \in DOMAIN used /\ r \in DOMAIN call.before /\ used[r] = call.before[r]

C3_NegativeAndZeroUse ==
    /\ FLt(call.qty, Zero) =>
          LET sum == FAdd(UsedBefore, call.qty)
          IN  /\ UsedAfter = (IF FLt(sum, Zero) THEN Zero ELSE sum)
              /\ call.ret = (IF FLt(sum, Zero) THEN sum ELSE Zero)
              /\ OthersUntouched
    /\ call.qty = Zero => call.ret = Zero /\ used = call.before
    /\ FAdd(call.ret, FSub(UsedAfter, UsedBefore)) = call.qty

\* a negative call that returned more than had been drawn
C3_Witness ==
    /\ FLt(call.qty, Zero)
    /\ FLt(Zero, UsedBefore)
    /\ FLt(call.ret, Zero)
    /\ UsedAfter = Zero

-----------------------------------------------------------------------------
(* calculate's result.                                                      *)

\* calculate has returned its result (line 332)
Returned == pc = "returned" /\ extraPasses = 0

\* calculate has returned after a propagation step that reported no change
\* (the break of line 328)
Converged == Returned /\ iter >= 1 /\ ~changed

\* Calculations.recipes[name][1] and Calculations.resources[resource]
required(name) == Get(recipes, name, ZeroPair)[2]

demand(resource) == Get(resources, resource, ZeroPair)[1]

supply(resource) == Get(resources, resource, ZeroPair)[2]

\* C4: when calculate returns (at least one propagation step allowed), every
\* target that names a recipe and no resource, with quantity q, has
\* required(recipe) >= q, whatever the other targets and their order.
C4_RecipeMinimumKept ==
    (Returned /\ maxIterations >= 1) =>
        \A i \in 1..Len(targets) :
            (is_recipe(book, targets[i][1]) /\ ~is_resource(book, targets[i][1]))
                => FLeq(asfrac(targets[i][2]), required(targets[i][1]))

\* C5: when calculate returns after a propagation step that reported no
\* change, every resource that get_recipe_for gives a recipe for has
\* produced >= demand.
C5_NonRawSupplied ==
    Converged =>
        \A r \in ResourcesOf(book) :
            get_recipe_for(book, defaults, r) # NoRecipe => FLeq(demand(r), supply(r))

\* C6: when calculate returns after a propagation step that reported no
\* change, every resource that get_recipe_for gives no recipe for has
\* produced = demand.
C6_RawBalanced ==
    Converged =>
        \A r \in ResourcesOf(book) :
            get_recipe_for(book, defaults, r) = NoRecipe => supply(r) = demand(r)

\* C5 and C6 on the books whose defaults are producers of their resource:
\* both invariants hold there.
NonRawSuppliedByProducers ==
    (\A r \in DOMAIN defaults :
        defaults[r] = NoRecipe \/ produces(book.recipe[defaults[r]], r))
        => C5_NonRawSupplied

RawBalancedWithoutOverrides ==
    (\A r \in DOMAIN defaults : defaults[r] # NoRecipe) => C6_RawBalanced

-----------------------------------------------------------------------------
(* Termination.  A run of _propagate that never empties its pending set     *)
(* never repeats a state: every pop that adds batches raises a required     *)
(* count.  What a pop does depends on less than the whole state, though:    *)
(* on a recipe's pair only through max(0, requested - required) (line 446), *)
(* and on a resource's pair only through demand - produced (lines 449-462)  *)
(* and, with round_resources, the fractional parts (lines 486, 503).        *)
(* Normalize keeps exactly that; TranslationInvariant states that a pop     *)
(* commutes with it.  QuotientSpec is calculate on normalized states, where *)
(* a run that never returns is a cycle.                                     *)

\* a recipe's pair with required cut at requested
Settle(pair) == <<pair[1], IF FLeq(pair[1], pair[2]) THEN pair[1] ELSE pair[2]>>

\* a resource's pair less the whole units common to demand and produced
Shift(pair) ==
    LET k == Floor(IF FLeq(pair[1], pair[2]) THEN pair[1] ELSE pair[2])
    IN  <<FSub(pair[1], k), FSub(pair[2], k)>>

Normalize(e) ==
    [e EXCEPT !.recipes   = [n \in DOMAIN e.recipes |-> Settle(e.recipes[n])],
              !.resources = [r \in DOMAIN e.resources |-> Shift(e.resources[r])]]

\* a pop from a state and the same pop from the normalized state end in
\* states with the same normal form, pending set, ledger and flags
TranslationInvariant ==
    pc \in {"propagate", "again"} =>
        \A name \in pending :
            Normalize(PopStep(book, defaults, available, roundBatches, roundResources,
                              Engine, name))
                = Normalize(PopStep(book, defaults, available, roundBatches, roundResources,
                                    Normalize(Engine), name))

\* the books without default overrides, one target
QuotientInit ==
    /\ Init
    /\ DOMAIN defaults = {}
    /\ Len(targets) = 1

\* lines 438-506: one iteration of the while loop, the state kept normalized;
\* a run whose normalized quantities pass MaxQuantity is followed no further
PopModulo ==
    /\ pc = "propagate"
    /\ \E name \in pending :
          \E e \in {Normalize(PopStep(book, defaults, available, roundBatches,
                                      roundResources, Engine, name))} :
              /\ recipes' = e.recipes
              /\ resources' = e.resources
              /\ used' = e.used
              /\ pending' = e.pending
              /\ changesMade' = e.changesMade
              /\ pc' = IF ~e.ok THEN "assertion"
                       ELSE IF ~Bounded(e) THEN "outside" ELSE pc
    /\ UNCHANGED <<Inputs, changed, iter, extraPasses, call>>

QuotientNext == Initialize \/ BeginPass \/ PopModulo \/ EndPass \/ Exhausted

\* Weak fairness of Initialize and of PopModulo, with ENABLED written out as
\* the guard (TLC evaluates ENABLED without caching the values it computes):
\* Initialize can step exactly at "start", PopModulo exactly while the while
\* loop of _propagate has a pending recipe.
InitializeFairness ==
    \/ []<>(pc # "start")
    \/ []<><<Initialize>>_vars

PopModuloFairness ==
    \/ []<>(~(pc = "propagate" /\ pending # {}))
    \/ []<><<PopModulo>>_vars

\* calculate is sequential code: it always takes its next step
QuotientSpec ==
    /\ QuotientInit
    /\ [][QuotientNext]_vars
    /\ WF_vars(BeginPass) /\ WF_vars(EndPass) /\ WF_vars(Exhausted)
    /\ InitializeFairness
    /\ PopModuloFairness

\* C7: every call of calculate eventually returns (or raises), each of its
\* propagation steps emptying the pending set after finitely many pops.
\* Runs that leave the model's quantities count as returning.
C7_CalculateReturns == <>(pc \in {"returned", "unrecognized", "assertion", "outside"})

-----------------------------------------------------------------------------
(* The order of the pops.  set.pop() yields the pending recipes in an order *)
(* the code does not control; CalculateInOrder is calculate with the        *)
(* pending recipe that comes first in the book popped every time.           *)

MaxOrderedPops == 12

FirstPending(b, pend) ==
    b.order[CHOOSE i \in 1..Len(b.order) :
                /\ b.order[i] \in pend
                /\ \A j \in 1..(i - 1) : b.order[j] \notin pend]

\* lines 438-508, for at most `fuel` pops: the state _propagate returns with,
\* and the pops left
RECURSIVE PropagateInOrder(_, _, _, _, _, _, _)
PropagateInOrder(b, dflt, av, rb, rr, e, fuel) ==
    IF e.pending = {} \/ ~e.ok THEN [e |-> e, fuel |-> fuel, finished |-> e.ok]
    ELSE IF fuel = 0 THEN [e |-> e, fuel |-> 0, finished |-> FALSE]
    ELSE PropagateInOrder(b, dflt, av, rb, rr,
             PopStep(b, dflt, av, rb, rr, e, FirstPending(b, e.pending)), fuel - 1)

\* lines 323-332: the for loop, with `left` iterations to go
RECURSIVE IterateInOrder(_, _, _, _, _, _, _, _)
IterateInOrder(b, dflt, av, rb, rr, e, left, fuel) ==
    IF left = 0 THEN [e |-> e, finished |-> TRUE]
    ELSE LET p == PropagateInOrder(b, dflt, av, rb, rr,
                      [e EXCEPT !.pending = DOMAIN e.recipes, !.changesMade = FALSE], fuel)
         IN  IF ~p.finished THEN [e |-> p.e, finished |-> FALSE]
             ELSE IF p.e.changesMade
                  THEN IterateInOrder(b, dflt, av, rb, rr, p.e, left - 1, p.fuel)
                  ELSE [e |-> p.e, finished |-> TRUE]

\* lines 299-332
CalculateInOrder(b, dflt, av, tg, rb, rr, max) ==
    LET c == InitTargets(b, dflt, av, tg, 1,
                 [recipes |-> EmptyDict, resources |-> EmptyDict, used |-> EmptyDict,
                  ok |-> TRUE, error |-> FALSE])
    IN  IF c.error \/ ~c.ok THEN [e |-> c, finished |-> FALSE]
        ELSE IterateInOrder(b, dflt, av, rb, rr,
                 [recipes |-> c.recipes, resources |-> c.resources, used |-> c.used,
                  pending |-> {}, changesMade |-> FALSE, ok |-> TRUE], max, MaxOrderedPops)

\* C8: the tables calculate returns do not depend on the order of the pops:
\* whenever calculate returns, its recipe table and its resource table are
\* those of the run that pops the pending recipes in book order (when that
\* run returns within MaxOrderedPops pops).
C8_PopOrderIrrelevant ==
    Returned =>
        \E r \in {CalculateInOrder(book, defaults, available, targets, roundBatches,
                                   roundResources, maxIterations)} :
            r.finished => (recipes = r.e.recipes /\ resources = r.e.resources)

\* a step that lowers no required count, no demand and no produced amount
NeverDecreases ==
    /\ \A n \in DOMAIN recipes :
          n \in DOMAIN recipes' /\ FLeq(recipes[n][2], recipes'[n][2])
    /\ \A r \in DOMAIN resources :
          /\ r \in DOMAIN resources'
          /\ FLeq(resources[r][1], resources'[r][1])
          /\ FLeq(resources[r][2], resources'[r][2])

\* C9: across every worklist step and every propagation step of a calculate
\* call, required of every recipe and demand and produced of every resource
\* never decrease.
C9_Monotone == [][(pc \in {"loop", "propagate"}) => NeverDecreases]_vars

\* C9 on the books without a none-override
MonotoneWithoutOverrides ==
    [][(\A r \in DOMAIN defaults : defaults[r] # NoRecipe)
           => (pc \in {"loop", "propagate"} => NeverDecreases)]_vars

\* a step that leaves the tables and the ledger alone and reports no change
NothingChanged ==
    /\ recipes' = recipes
    /\ resources' = resources
    /\ used' = used
    /\ ~changesMade'

\* C10: when the last propagation step of calculate reported no change, a
\* further propagation step on the returned state changes neither the recipe
\* table, nor the resource table, nor the ledger's used map, at any pop, and
\* reports no change.
C10_Idempotent == [][(pc = "again" /\ iter >= 1 /\ ~changed) => NothingChanged]_vars

\* a further propagation step has run to its end on a converged result with
\* batches, demand and stock drawn
C10_Witness ==
    /\ pc = "returned"
    /\ extraPasses = 1
    /\ iter >= 2
    /\ ~changed
    /\ \E n \in DOMAIN recipes : FLt(Zero, recipes[n][2])
    /\ \E r \in DOMAIN used : FLt(Zero, used[r])

-----------------------------------------------------------------------------
(* Acyclic recipe graphs without byproducts.                                *)

\* the pairs <<input, output>> of the recipes of the book
Feeds(b) ==
    {Names(b.recipe[n].inputs) \X Names(b.recipe[n].outputs) : n \in RecipeNames(b)}

\* the resources made, in one or more recipes, out of the resources of `from`
RECURSIVE MadeFrom(_, _, _)
MadeFrom(b, from, steps) ==
    LET next == {e[2] : e \in {f \in UNION Feeds(b) : f[1] \in from}}
    IN  IF steps = 0 THEN {} ELSE next \cup MadeFrom(b, next, steps - 1)

Acyclic(b) ==
    \A r \in ResourcesOf(b) : r \notin MadeFrom(b, {r}, Cardinality(ResourcesOf(b)))

NoByproducts(b) == \A n \in RecipeNames(b) : Len(b.recipe[n].outputs) = 1

\* the second call of _propagate is under way, or has returned
SecondStep == iter = 1 /\ extraPasses = 0 /\ pc \in {"propagate", "again"}

\* C11: on an acyclic book whose recipes have one output each, whatever the
\* targets, the stock and the rounding options, the propagation step that
\* follows the first one makes no change.
C11_OnePassConverges ==
    (Acyclic(book) /\ NoByproducts(book) /\ SecondStep) => ~changesMade

\* C11 with round_resources off
OnePassConvergesUnrounded ==
    (Acyclic(book) /\ NoByproducts(book) /\ SecondStep /\ ~roundResources) => ~changesMade

-----------------------------------------------------------------------------
(* The views of a Calculations object (book.py lines 158-212).              *)

\* Calculations.requested: targets.get(resource) or 0
requested(resource) ==
    IF \E i \in 1..Len(targets) : targets[i][1] = resource
    THEN targets[CHOOSE i \in 1..Len(targets) : targets[i][1] = resource][2]
    ELSE Zero

\* Calculations.supplied: ar.available.get(resource) or 0
supplied(resource) == Get(available, resource, Zero)

\* Calculations.leftover: ar.remaining(resource)
leftover(resource) == Remaining(available, used, resource)

\* Calculations.excess: produced - demand
excess(resource) == FSub(supply(resource), demand(resource))

\* Calculations.consumed: (demand + used) - requested
consumption(resource) ==
    FSub(FAdd(demand(resource), Get(used, resource, Zero)), requested(resource))

-----------------------------------------------------------------------------
(* The byproduct cycle A {1 x} -> {1 y, 1 z}, B {1 z} -> {1 x} with a       *)
(* target of y, nothing on hand, no rounding, the default cap.              *)

ByproductCycleRun ==
    /\ book.order = ByproductCycleBook.order
    /\ book.recipe = ByproductCycleBook.recipe
    /\ Len(targets) = 1
    /\ targets[1][1] = "y"
    /\ available = EmptyDict
    /\ ~roundBatches
    /\ ~roundResources
    /\ maxIterations = DefaultMaxIterations

\* C12: in the byproduct-cycle run with target n of y, when calculate
\* returns, in every pop order, its last propagation step reported no change,
\* required(A) = required(B) = n, and x and z each have
\* produced = demand = consumed.
C12_ByproductCycle ==
    (ByproductCycleRun /\ Returned) =>
        /\ Converged
        /\ required("A") = targets[1][2]
        /\ required("B") = targets[1][2]
        /\ \A r \in {"x", "z"} :
              /\ supply(r) = demand(r)
              /\ consumption(r) = demand(r)
              /\ excess(r) = Zero

\* the byproduct-cycle run has returned, with batches of both recipes
C12_Witness ==
    /\ ByproductCycleRun
    /\ Returned
    /\ FLt(Zero, required("A"))
    /\ FLt(Zero, required("B"))
    /\ FLt(Zero, demand("z"))

\* every byproduct-cycle run returns (under QuotientSpec)
ByproductCycleReturns == ByproductCycleRun => <>(pc = "returned")

-----------------------------------------------------------------------------
(* The single-recipe chain R {a wood} -> {b plank} with a target of q plank *)
(* and w wood on hand (none when the map is empty), and no rounding.        *)

ChainRun ==
    /\ book.order = ChainBook.order
    /\ book.recipe = ChainBook.recipe
    /\ Len(targets) = 1
    /\ targets[1][1] = "plank"
    /\ DOMAIN available \subseteq {"wood"}
    /\ ~roundBatches
    /\ ~roundResources
    /\ maxIterations = DefaultMaxIterations

\* a * q / b, with a and b the per-batch counts of the recipe R
ChainWoodNeeded ==
    FDiv(FMul(CountOf(book.recipe["R"].inputs, "wood"), targets[1][2]),
         CountOf(book.recipe["R"].outputs, "plank"))

\* C13: in the chain run, when calculate returns, required(R) = q/b,
\* demand(plank) = produced(plank) = q, demand(wood) = produced(wood) =
\* max(0, a*q/b - w), supplied(wood) = w, leftover(wood) = max(0, w - a*q/b)
\* and consumed(wood) = a*q/b.
C13_ChainWithStock ==
    (ChainRun /\ Returned) =>
        LET q == targets[1][2]
            w == Get(available, "wood", Zero)
        IN  /\ required("R") = FDiv(q, CountOf(book.recipe["R"].outputs, "plank"))
            /\ demand("plank") = q
            /\ supply("plank") = q
            /\ demand("wood") = FMax(Zero, FSub(ChainWoodNeeded, w))
            /\ supply("wood") = demand("wood")
            /\ supplied("wood") = w
            /\ leftover("wood") = FMax(Zero, FSub(w, ChainWoodNeeded))
            /\ consumption("wood") = ChainWoodNeeded

\* the chain run has returned with wood left over on hand
C13_Witness ==
    /\ ChainRun
    /\ Returned
    /\ FLt(Zero, required("R"))
    /\ FLt(Zero, leftover("wood"))

\* the chain run has returned with part of the wood newly demanded
C13_WitnessPartlyCovered ==
    /\ ChainRun
    /\ Returned
    /\ FLt(Zero, supplied("wood"))
    /\ FLt(Zero, demand("wood"))

\* every chain run returns (under QuotientSpec)
ChainReturns == ChainRun => <>(pc = "returned")

-----------------------------------------------------------------------------
(* Targets that name neither a recipe nor a resource.                       *)

Unrecognized(identifier) == identifier \notin RecipeNames(book) \cup ResourcesOf(book)

HasUnrecognizedTarget == \E i \in 1..Len(targets) : Unrecognized(targets[i][1])

\* the only step of a call with an unrecognized target: it raises, and
\* changes neither the book nor the caller's map, and yields no quantities
FailsUnrecognized ==
    /\ pc = "start"
    /\ pc' = "unrecognized"
    /\ UNCHANGED <<book, defaults, available>>
    /\ UNCHANGED <<recipes, resources, used, pending, changesMade, changed, iter>>

UnrecognizedNeverPropagates ==
    HasUnrecognizedTarget =>
        /\ pc \in {"start", "unrecognized"}
        /\ iter = 0
        /\ pending = {}
        /\ DOMAIN recipes = {}
        /\ DOMAIN resources = {}
        /\ DOMAIN used = {}

-----------------------------------------------------------------------------
(* The state calculate's loop over the targets leaves (lines 303-321).      *)

Initialized == pc = "loop" /\ iter = 0

ResourceTargets == {i \in 1..Len(targets) : is_resource(book, targets[i][1])}

\* the part of the i-th target's quantity that the stock on hand does not
\* cover (each resource is a target once, so the ledger is untouched for it)
Unmet(i) == FMax(Zero, FSub(targets[i][2], Get(available, targets[i][1], Zero)))

\* a later target writes the entry of recipe `name` again
WrittenAfter(i, name) ==
    \E j \in (i + 1)..Len(targets) :
        \/ targets[j][1] = name /\ ~is_resource(book, name)
        \/ /\ is_resource(book, targets[j][1])
           /\ get_recipe_for(book, defaults, targets[j][1]) = name

\* C15: after the initialization, every resource target (resource, q) has
\* the entry (u, u) when get_recipe_for(resource) is none and (u, 0)
\* otherwise, u the part of q the ledger could not cover, and in the second
\* case the entry of the recipe found is (0, 0) (unless a later target wrote
\* that recipe's entry again).
C15_ResourceTargetInitialized ==
    Initialized =>
        \A i \in ResourceTargets :
            LET resource == targets[i][1]
                recipe   == get_recipe_for(book, defaults, resource)
            IN  /\ resource \in DOMAIN resources
                /\ IF recipe = NoRecipe
                   THEN resources[resource] = <<Unmet(i), Unmet(i)>>
                   ELSE /\ resources[resource] = <<Unmet(i), Zero>>
                        /\ recipe \in DOMAIN recipes
                        /\ WrittenAfter(i, recipe) \/ recipes[recipe] = ZeroPair
                /\ Get(used, resource, Zero) = FSub(targets[i][2], Unmet(i))

\* initialized with a produced resource as the target, partly on hand
C15_Witness ==
    /\ Initialized
    /\ \E i \in ResourceTargets :
          /\ get_recipe_for(book, defaults, targets[i][1]) # NoRecipe
          /\ FLt(Zero, Unmet(i))
          /\ FLt(Unmet(i), targets[i][2])

\* initialized with a raw resource as the target, partly on hand
C15_WitnessRaw ==
    /\ Initialized
    /\ \E i \in ResourceTargets :
          /\ get_recipe_for(book, defaults, targets[i][1]) = NoRecipe
          /\ FLt(Zero, Unmet(i))
          /\ FLt(Unmet(i), targets[i][2])

-----------------------------------------------------------------------------
(* Targets whose identifier is a recipe name and a resource name.           *)

CollidingTargets ==
    {i \in 1..Len(targets) : targets[i][1] \in RecipeNames(book) \cap ResourcesOf(book)}

\* the requested minimum of recipe `name`: recipes[name][0]
minimum(name) == Get(recipes, name, ZeroPair)[1]

\* C16: a target whose identifier is both a recipe name and a resource name
\* is a resource target: after the initialization its quantity, less what the
\* ledger covered, is the demand of the resource, and at no point of the run
\* is it the requested minimum of the recipe of that name.
C16_ResourceWinsCollision ==
    \A i \in CollidingTargets :
        /\ Initialized =>
              /\ targets[i][1] \in DOMAIN resources
              /\ demand(targets[i][1]) = Unmet(i)
        /\ pc # "start" => minimum(targets[i][1]) = Zero

\* initialized with a colliding target whose recipe has no entry of its own
C16_Witness ==
    /\ Initialized
    /\ \E i \in CollidingTargets :
          /\ FLt(Zero, demand(targets[i][1]))
          /\ targets[i][1] \notin DOMAIN recipes

\* initialized with a colliding target whose recipe produces it
C16_WitnessProduced ==
    /\ Initialized
    /\ \E i \in CollidingTargets :
          /\ FLt(Zero, demand(targets[i][1]))
          /\ targets[i][1] \in DOMAIN recipes

-----------------------------------------------------------------------------
(* Stock on hand is drawn before production is demanded.                    *)

\* the resources the call knows of
Tracked == DOMAIN resources \cup DOMAIN available \cup DOMAIN used

C17_WitnessStockLeft ==
    /\ pc = "returned"
    /\ \E r \in DOMAIN available :
          /\ FLt(Zero, Get(used, r, Zero))
          /\ FLt(Zero, leftover(r))
          /\ demand(r) = Zero

-----------------------------------------------------------------------------
(* get_recipe_for on a resource with several producers and no default.      *)

\* the recipes that produce the resource, in the book's order
Producers(b, resource) == SelectSeq(b.order, LAMBDA n : produces(b.recipe[n], resource))

\* the resource targets with several producers: the initialization has called
\* get_recipe_for on each of them
LookedUpWithChoice == {i \in ResourceTargets : Len(Producers(book, targets[i][1])) > 1}

\* C18: once get_recipe_for has picked among several producers of a
\* resource, the default map holds the recipe picked for that resource.
C18_PickStoredAsDefault ==
    Initialized =>
        \A i \in LookedUpWithChoice :
            /\ targets[i][1] \in DOMAIN defaults
            /\ defaults[targets[i][1]] = Producers(book, targets[i][1])[1]

\* what get_recipe_for returns for a resource does not change during a call
\* of calculate
PickRepeats ==
    [][\A r \in ResourcesOf(book) :
          get_recipe_for(book, defaults, r)' = get_recipe_for(book, defaults, r)]_vars

-----------------------------------------------------------------------------
(* Building a book: RecipeBook.from_obj (calculator/book.py) and the older  *)
(* RecipeBook.add_recipes_from_stream (src/recipe.py), and configuring it   *)
(* with set_default_crafter.  Here book = [order, recipe, crafters], with   *)
(* crafters the names the book defines, and call holds the definitions to   *)
(* read or the last set_default_crafter call.                               *)

DefNames == {"R", "plank"}

DefResources == {"wood", "plank", "R"}

\* the crafters section of the book object
DefinedCrafters == DOMAIN CrafterEfficiency

\* an identifier the crafters section does not define
UnknownCrafter == "ghost"

CrafterLists == {<<>>, <<"fast">>, <<"slow", "fast">>}

\* recipe definitions with one input and one output
Definitions ==
    {[name |-> n,
      recipe |-> [inputs |-> <<<<i, 1>>>>, outputs |-> <<<<o, 1>>>>, duration |-> 1,
                  crafters |-> c]] :
        n \in DefNames, i \in DefResources, o \in DefResources, c \in CrafterLists}

\* a recipes section of one or two definitions, in order
DefinitionSeqs ==
    {<<d>> : d \in Definitions}
        \cup {<<p[1], p[2]>> : p \in {q \in Definitions \X Definitions : q[1].name # q[2].name}}

EmptyBook == [order |-> <<>>, recipe |-> [x \in {} |-> NoRecipe], crafters |-> DefinedCrafters]

\* Recipe.from_obj's checks (recipe.py lines 62-76)
RecipeRejected(r, aval_crafters) ==
    \/ Len(r.inputs) > 0 /\ Len(r.outputs) = 0
    \/ Names(r.inputs) \cap Names(r.outputs) # {}
    \/ \E k \in 1..Len(r.crafters) : r.crafters[k] \notin aval_crafters

\* self._recipes[name] = r, and the resources of r join self._resources
\* (ResourcesOf derives them from the recipes)
WithRecipe(b, name, r) ==
    [b EXCEPT !.order  = IF name \in RecipeNames(b) THEN @ ELSE Append(@, name),
              !.recipe = [x \in DOMAIN @ \cup {name} |-> IF x = name THEN r ELSE @[x]]]

\* from_obj, lines 237-242: the loop over recipes.items(), from the i-th on
RECURSIVE from_obj(_, _, _)
from_obj(defs, i, b) ==
    IF i > Len(defs) THEN [error |-> FALSE, book |-> b]
    ELSE IF RecipeRejected(defs[i].recipe, b.crafters) THEN [error |-> TRUE, book |-> b]
    ELSE from_obj(defs, i + 1, WithRecipe(b, defs[i].name, defs[i].recipe))

\* src/recipe.py lines 200-204: the checks on one line of the stream
DuplicatedIdentifier(b, name, r) ==
    \/ name \in ResourcesOf(b)
    \/ (Names(r.inputs) \cup Names(r.outputs)) \cap RecipeNames(b) # {}

\* src/recipe.py add_recipes_from_stream, lines 195-206, from the i-th line on
RECURSIVE add_recipes_from_stream(_, _, _)
add_recipes_from_stream(defs, i, b) ==
    IF i > Len(defs) THEN [error |-> FALSE, book |-> b]
    ELSE IF DuplicatedIdentifier(b, defs[i].name, defs[i].recipe)
         THEN [error |-> TRUE, book |-> b]
    ELSE add_recipes_from_stream(defs, i + 1, WithRecipe(b, defs[i].name, defs[i].recipe))

is_crafter(b, identifier) == identifier \in b.crafters

IndexOf(list, x) == CHOOSE k \in 1..Len(list) : list[k] = x /\ \A j \in 1..(k - 1) : list[j] # x

SwapNothing(list, index) == list

\* line 418: rcrafters[0], rcrafters[index] = rcrafters[index], rcrafters[0]
Swap(list, index) ==
    [k \in 1..Len(list) |-> IF k = 1 THEN list[index]
                            ELSE IF k = index THEN list[1] ELSE list[k]]

\* set_default_crafter: the book afterwards, and whether it raised
set_default_crafter(b, recipe, crafter) ==
    IF ~is_recipe(b, recipe) THEN [error |-> TRUE, book |-> b]
    ELSE IF ~is_crafter(b, crafter) THEN [error |-> TRUE, book |-> b]
    ELSE LET rcrafters == b.recipe[recipe].crafters
         IN  IF \E k \in 1..Len(rcrafters) : rcrafters[k] = crafter
             THEN [error |-> FALSE,
                   book  |-> [b EXCEPT !.recipe[recipe].crafters =
                                           Swap(rcrafters, IndexOf(rcrafters, crafter))]]
             ELSE [error |-> TRUE, book |-> b]

BookInit ==
    /\ book = EmptyBook
    /\ call \in {[defs |-> d] : d \in DefinitionSeqs}
    /\ pc \in {"from_obj", "from_stream"}
    /\ defaults = NoDefaults
    /\ targets = <<>>
    /\ roundBatches = FALSE
    /\ roundResources = FALSE
    /\ maxIterations = 0
    /\ available = EmptyDict
    /\ used = EmptyDict
    /\ recipes = [x \in {} |-> ZeroPair]
    /\ resources = [x \in {} |-> ZeroPair]
    /\ pending = {}
    /\ changesMade = FALSE
    /\ changed = FALSE
    /\ iter = 0
    /\ extraPasses = 0

BookFixed == <<targets, roundBatches, roundResources, maxIterations, available,
               used, recipes, resources, pending, changesMade, changed, extraPasses>>

MaxDefaultCalls == 1

UnknownResource == "ghost"

\* set_default_recipe (book.py lines 398-406): the defaults afterwards, and
\* whether it raised
set_default_recipe(b, dflt, resource, recipe) ==
    IF ~is_resource(b, resource) THEN [error |-> TRUE, defaults |-> dflt]
    ELSE IF recipe = NoRecipe THEN [error |-> FALSE, defaults |-> Put(dflt, resource, NoRecipe)]
    ELSE IF ~is_recipe(b, recipe) THEN [error |-> TRUE, defaults |-> dflt]
    ELSE [error |-> FALSE, defaults |-> Put(dflt, resource, recipe)]

\* set_defaults_from_obj (book.py lines 253-279) on a map of default
\* recipes, given as its items() in order: the loop from the i-th item on
RECURSIVE set_defaults_from_obj(_, _, _, _)
set_defaults_from_obj(b, dflt, items, i) ==
    IF i > Len(items) THEN [error |-> FALSE, defaults |-> dflt]
    ELSE LET one == set_default_recipe(b, dflt, items[i][1], items[i][2])
         IN  IF one.error THEN one
             ELSE set_defaults_from_obj(b, one.defaults, items, i + 1)

\* src/recipe.py set_defaults_from_stream, lines 223-232, on one line
set_defaults_from_stream(b, dflt, resource, recipe) ==
    IF ~is_resource(b, resource) THEN [error |-> TRUE, defaults |-> dflt]
    ELSE IF ~is_recipe(b, recipe) THEN [error |-> TRUE, defaults |-> dflt]
    ELSE IF ~produces(b.recipe[recipe], resource) THEN [error |-> TRUE, defaults |-> dflt]
    ELSE [error |-> FALSE, defaults |-> Put(dflt, resource, recipe)]

\* RecipeBook.from_obj(book)
FromObj ==
    /\ pc = "from_obj"
    /\ LET built == from_obj(call.defs, 1, book)
       IN  IF built.error
           THEN pc' = "parse_error" /\ book' = book
           ELSE pc' = "built" /\ book' = built.book
    /\ UNCHANGED <<call, defaults, iter, BookFixed>>

\* RecipeBook().add_recipes_from_stream(lines) of src/recipe.py
AddRecipesFromStream ==
    /\ pc = "from_stream"
    /\ LET built == add_recipes_from_stream(call.defs, 1, book)
       IN  IF built.error
           THEN pc' = "parse_error" /\ book' = book
           ELSE pc' = "built_from_stream" /\ book' = built.book
    /\ UNCHANGED <<call, defaults, iter, BookFixed>>

\* book.set_default_crafter(recipe, crafter) on a built book, the caller
\* catching the ParseError
SetDefaultCrafter ==
    /\ pc = "built"
    /\ \E recipe \in DefNames, crafter \in DefinedCrafters \cup {UnknownCrafter} :
          LET result == set_default_crafter(book, recipe, crafter)
          IN  /\ book' = result.book
              /\ call' = [defs |-> call.defs, recipe |-> recipe, crafter |-> crafter,
                          error |-> result.error, before |-> book]
    /\ UNCHANGED <<pc, defaults, iter, BookFixed>>

\* book.set_default_recipe(resource, recipe) on a built book, the caller
\* catching the ParseError
SetDefaultRecipe ==
    /\ pc = "built"
    /\ iter < MaxDefaultCalls
    /\ \E resource \in DefResources \cup {UnknownResource},
          recipe \in DefNames \cup {NoRecipe} :
          LET result == set_default_recipe(book, defaults, resource, recipe)
          IN  /\ defaults' = result.defaults
              /\ call' = [defs |-> call.defs, error |-> result.error]
    /\ iter' = iter + 1
    /\ UNCHANGED <<book, pc, BookFixed>>

\* book.set_defaults_from_obj(obj), obj a map of two default recipes
SetDefaultsFromObj ==
    /\ pc = "built"
    /\ iter < MaxDefaultCalls
    /\ \E r1 \in DefResources, r2 \in DefResources \ {"wood"},
          n1 \in DefNames \cup {NoRecipe}, n2 \in DefNames :
          /\ r1 # r2
          /\ LET result == set_defaults_from_obj(book, defaults,
                                                 <<<<r1, n1>>, <<r2, n2>>>>, 1)
             IN  /\ defaults' = result.defaults
                 /\ call' = [defs |-> call.defs, error |-> result.error]
    /\ iter' = iter + 1
    /\ UNCHANGED <<book, pc, BookFixed>>

\* book.set_defaults_from_stream(lines) of src/recipe.py, with one line
SetDefaultsFromStream ==
    /\ pc = "built_from_stream"
    /\ iter < MaxDefaultCalls
    /\ \E resource \in DefResources \cup {UnknownResource}, recipe \in DefNames :
          LET result == set_defaults_from_stream(book, defaults, resource, recipe)
          IN  /\ defaults' = result.defaults
              /\ call' = [defs |-> call.defs, error |-> result.error]
    /\ iter' = iter + 1
    /\ UNCHANGED <<book, pc, BookFixed>>

BookNext ==
    \/ FromObj
    \/ AddRecipesFromStream
    \/ SetDefaultCrafter
    \/ SetDefaultRecipe
    \/ SetDefaultsFromObj
    \/ SetDefaultsFromStream

BookSpec == BookInit /\ [][BookNext]_vars

\* C19: a book that was built has no identifier that is both a recipe name
\* and a resource name: definitions with such an identifier are rejected with
\* a configuration error.
C19_NoSharedIdentifier ==
    pc \in {"built", "built_from_stream"} => RecipeNames(book) \cap ResourcesOf(book) = {}

\* what the older add_recipes_from_stream does ensure: no recipe is named
\* like a resource of another recipe
StreamRejectsOtherRecipes ==
    pc = "built_from_stream" =>
        \A n \in RecipeNames(book) : \A m \in RecipeNames(book) \ {n} :
            n \notin Names(book.recipe[m].inputs) \cup Names(book.recipe[m].outputs)

-----------------------------------------------------------------------------
(* set_default_crafter(recipe, crafter), judged on the call just made.      *)

AfterSetDefaultCrafter == pc = "built" /\ "crafter" \in DOMAIN call

Occurrences(list, x) == Cardinality({k \in 1..Len(list) : list[k] = x})

\* the call names an unknown recipe, an unknown crafter, or a crafter that is
\* not in the recipe's list
NotAbleToCraft(b, recipe, crafter) ==
    IF recipe \notin RecipeNames(b) \/ crafter \notin b.crafters THEN TRUE
    ELSE Occurrences(b.recipe[recipe].crafters, crafter) = 0

\* C20: set_default_crafter raises a configuration error and leaves the book
\* as it was when the recipe is unknown, the crafter is unknown or the
\* crafter is not in the recipe's list; otherwise the crafter is then the
\* head of that list, efficiency() of the recipe is the crafter's, the list
\* holds the crafters it held, and nothing else of the book has changed.
C20_SetDefaultCrafter ==
    AfterSetDefaultCrafter =>
        LET before == call.before
            recipe == call.recipe
        IN  IF NotAbleToCraft(before, recipe, call.crafter)
            THEN call.error /\ book = before
            ELSE /\ ~call.error
                 /\ book.recipe[recipe].crafters[1] = call.crafter
                 /\ efficiency(book.recipe[recipe]) = CrafterEfficiency[call.crafter]
                 /\ Len(book.recipe[recipe].crafters) = Len(before.recipe[recipe].crafters)
                 /\ \A c \in before.crafters :
                       Occurrences(book.recipe[recipe].crafters, c)
                           = Occurrences(before.recipe[recipe].crafters, c)
                 /\ book = [before EXCEPT !.recipe[recipe].crafters =
                                              book.recipe[recipe].crafters]

\* a crafter that was not the head of the list has been promoted
C20_Witness ==
    /\ AfterSetDefaultCrafter
    /\ ~call.error
    /\ call.before.recipe[call.recipe].crafters[1] # call.crafter
    /\ book.recipe[call.recipe].crafters[1] = call.crafter

\* a call has been refused for a crafter the book defines but the recipe
\* does not list
C20_WitnessRefused ==
    /\ AfterSetDefaultCrafter
    /\ call.error
    /\ call.recipe \in RecipeNames(book)
    /\ call.crafter \in book.crafters

-----------------------------------------------------------------------------
(* The for loop of calculate (lines 323-332).  iter counts the propagation  *)
(* steps run, changesMade is what the last of them reported, and changed is *)
(* the variable line 329 tests to print the warning.                        *)

\* line 329-330: the non-convergence warning is printed
Warned == Returned /\ changed

LastStepChanged == iter >= 1 /\ changesMade

\* C21: calculate runs at most max_iterations propagation steps, goes on to
\* a further step only after one that reported a change, and returns either
\* with the warning, after max_iterations steps of which the last reported a
\* change, or without it, right after a step that reported none (or after
\* no step at all when max_iterations is 0).
C21_IterationCap ==
    /\ iter <= maxIterations
    /\ (pc \in {"loop", "propagate"} /\ iter >= 1) => changed
    /\ Returned =>
          /\ Warned <=> (iter = maxIterations /\ LastStepChanged)
          /\ iter < maxIterations => (iter >= 1 /\ ~changesMade)

\* calculate has returned with the warning
C21_Witness == Warned /\ iter = maxIterations /\ DOMAIN recipes # {}

\* calculate has returned before the cap, without the warning
C21_WitnessEarly == Returned /\ ~changed /\ iter >= 2 /\ iter < maxIterations

\* at the cap calculate returns what it has: the step from the exhausted
\* loop changes no table
ReturnsAtCap ==
    [][(pc = "loop" /\ iter = maxIterations) =>
          (pc' = "returned" /\ UNCHANGED <<recipes, resources, used>>)]_vars

-----------------------------------------------------------------------------
(* Resource targets with more on hand than is asked for.                    *)

\* the resource targets whose stock on hand exceeds the quantity asked for
OversuppliedTargets ==
    {i \in ResourceTargets : FLt(targets[i][2], Get(available, targets[i][1], Zero))}

\* C22 as stated: after the initialization such a target has the entry
\* (required, required), required the quantity asked for, and the ledger has
\* used nothing of the resource.
C22_EntrySetDirectly ==
    Initialized =>
        \A i \in OversuppliedTargets :
            /\ Get(resources, targets[i][1], ZeroPair) = <<targets[i][2], targets[i][2]>>
            /\ Get(used, targets[i][1], Zero) = Zero

\* C22, amended: after the initialization such a target has the entry (0, 0),
\* and the ledger has used the whole quantity asked for.
C22_DrawnFromLedger ==
    Initialized =>
        \A i \in OversuppliedTargets :
            /\ targets[i][1] \in DOMAIN resources
            /\ resources[targets[i][1]] = ZeroPair
            /\ Get(used, targets[i][1], Zero) = targets[i][2]
            /\ leftover(targets[i][1])
                   = FSub(Get(available, targets[i][1], Zero), targets[i][2])

\* initialized with a target that has more on hand than asked for
C22_Witness ==
    /\ Initialized
    /\ \E i \in OversuppliedTargets :
          /\ FLt(Zero, targets[i][2])
          /\ FLt(Zero, leftover(targets[i][1]))

-----------------------------------------------------------------------------
(* The batches one worklist step adds to the recipe it processes.           *)

\* the outputs of recipe `name` that are short and that it is the active
\* recipe of
QualifyingOutputs(name) ==
    {r \in Names(book.recipe[name].outputs) :
        /\ FLt(supply(r), demand(r))
        /\ get_recipe_for(book, defaults, r) = name}

\* the greatest of a non-empty finite set of quantities
Greatest(S) == CHOOSE m \in S : \A x \in S : FLeq(x, m)

\* the batch delta of recipe `name` before rounding: the maximum of 0,
\* requested - required, and what each qualifying output is short of
Delta(name) ==
    Greatest({Zero, FSub(minimum(name), required(name))}
                 \cup {batches_required(book.recipe[name], r, FSub(demand(r), supply(r))) :
                          r \in QualifyingOutputs(name)})

RoundedDelta(name) == IF roundBatches THEN Ceil(Delta(name)) ELSE Delta(name)

\* a worklist step on recipe `name`: its required count goes up by the
\* delta, and no other recipe's entry changes
ProcessedWithDelta(name) ==
    recipes' = IF RoundedDelta(name) = Zero THEN recipes
               ELSE Put(recipes, name,
                        <<minimum(name), FAdd(required(name), RoundedDelta(name))>>)

\* C23: every worklist step processes one pending recipe and raises its
\* required count by the maximum of 0, requested - required and
\* batches_required(resource, demand - produced) over the outputs that are
\* short and that the recipe is the active recipe of (rounded up with
\* round_batches).
C23_BatchDelta ==
    [][(pc \in {"propagate", "again"} /\ pending # {} /\ pc' # "assertion") =>
          \E name \in pending : ProcessedWithDelta(name)]_vars

\* a step has raised a recipe past its requested minimum, for an output
\* that was short
C23_Witness ==
    /\ pc = "propagate"
    /\ changesMade
    /\ ~roundBatches
    /\ \E name \in DOMAIN recipes :
          /\ FLt(Zero, minimum(name))
          /\ FLt(minimum(name), required(name))

\* a recipe was processed while an output it is not the active recipe of
\* was short, and has its requested minimum and no more
C23_WitnessNotActive ==
    /\ Returned
    /\ \E name \in DOMAIN recipes :
          /\ FLt(Zero, minimum(name))
          /\ required(name) = minimum(name)
          /\ \E r \in Names(book.recipe[name].outputs) :
                /\ FLt(supply(r), demand(r))
                /\ get_recipe_for(book, defaults, r) # name

\* a recipe that has no requested minimum and is the active recipe of none
\* of its outputs has no batches
InactiveKeepsZero ==
    \A name \in RecipeNames(book) :
        (/\ minimum(name) = Zero
         /\ \A r \in Names(book.recipe[name].outputs) :
               get_recipe_for(book, defaults, r) # name)
            => required(name) = Zero

-----------------------------------------------------------------------------
(* Rounding of resources: demand up, supply down.                           *)

\* the sum over the recipes order[i..] of what each produces of the
\* resource in the batches it is required to run
RECURSIVE ProducedByRecipes(_, _)
ProducedByRecipes(resource, i) ==
    IF i > Len(book.order) THEN Zero
    ELSE FAdd(produced(book.recipe[book.order[i]], resource, required(book.order[i])),
              ProducedByRecipes(resource, i + 1))

\* the same sum of what each consumes of the resource
RECURSIVE ConsumedByRecipes(_, _)
ConsumedByRecipes(resource, i) ==
    IF i > Len(book.order) THEN Zero
    ELSE FAdd(consumed(book.recipe[book.order[i]], resource, required(book.order[i])),
              ConsumedByRecipes(resource, i + 1))

InCalculate == pc \in {"loop", "propagate", "returned", "again"}

SupplyNotOverstated ==
    \A r \in ResourcesOf(book) :
        get_recipe_for(book, defaults, r) # NoRecipe
            => FLeq(supply(r), ProducedByRecipes(r, 1))

DemandNotUnderstated ==
    \A r \in ResourcesOf(book) : FLeq(ConsumedByRecipes(r, 1), consumption(r))

\* C24: with round_resources, after the initialization and after every
\* worklist step, the produced count of every resource that has an active
\* recipe is at most what the recipes produce of it in their required
\* batches, and demand + used - requested of every resource is at least what
\* the recipes consume of it.
C24_RoundingDirections ==
    (InCalculate /\ roundResources) => (SupplyNotOverstated /\ DemandNotUnderstated)

\* rounding has lowered a produced count and raised a consumption
C24_Witness ==
    /\ InCalculate
    /\ roundResources
    /\ \E r \in ResourcesOf(book) :
          /\ get_recipe_for(book, defaults, r) # NoRecipe
          /\ FLt(supply(r), ProducedByRecipes(r, 1))
    /\ \E r \in ResourcesOf(book) : FLt(ConsumedByRecipes(r, 1), consumption(r))

\* the two bounds hold without rounding as well
RoundingDirectionsAlways == InCalculate => (SupplyNotOverstated /\ DemandNotUnderstated)

-----------------------------------------------------------------------------
(* The active recipe of a resource.                                         *)

ActiveRecipeProduces(r) ==
    LET active == get_recipe_for(book, defaults, r)
    IN  \/ active = NoRecipe
        \/ /\ active \in RecipeNames(book)
           /\ produces(book.recipe[active], r)

\* C25: in a built book, whatever defaults have been set since, the active
\* recipe of every resource is none or a recipe that outputs the resource.
C25_ActiveRecipeProduces ==
    pc \in {"built", "built_from_stream"} => \A r \in ResourcesOf(book) : ActiveRecipeProduces(r)

\* the older set_defaults_from_stream keeps it
StreamDefaultsProduce ==
    pc = "built_from_stream" => \A r \in ResourcesOf(book) : ActiveRecipeProduces(r)

-----------------------------------------------------------------------------
(* Results returned without the warning.                                    *)

\* C26: for every max_iterations, when calculate has returned without the
\* non-convergence warning, a further propagation step on the returned
\* tables and ledger changes nothing and reports no change.
C26_QuietResultIsFixedPoint == [][(pc = "again" /\ ~changed) => NothingChanged]_vars

-----------------------------------------------------------------------------
(* Flow balance of the consumed view.                                       *)

ConsumedBalanced == \A r \in ResourcesOf(book) : consumption(r) = ConsumedByRecipes(r, 1)

\* C27: without rounding, in every result of calculate, consumed(r) =
\* demand(r) + used(r) - requested(r) is, for every resource r, the sum over
\* the recipes of what each consumes of r in its required batches.
C27_ConsumedBalance == (Returned /\ ~roundBatches /\ ~roundResources) => ConsumedBalanced

\* a result in which a resource is a target, is drawn from stock and is
\* consumed by a recipe
C27_Witness ==
    /\ Returned
    /\ ~roundBatches
    /\ ~roundResources
    /\ \E r \in ResourcesOf(book) :
          /\ FLt(Zero, requested(r))
          /\ FLt(Zero, Get(used, r, Zero))
          /\ FLt(Zero, demand(r))
          /\ FLt(Zero, consumption(r))

\* the balance holds at every point of the call, and with round_batches
ConsumedBalanceThroughout == (InCalculate /\ ~roundResources) => ConsumedBalanced

====
